---- MODULE Spec2Model ----
(***************************************************************************)
(* Model of the two lazy/memoizing cores of the repository:                *)
(*   - the query method generated by derive_query_db (src/derive/query.rs) *)
(*     with its per-query caches, call stack and in-flight set;            *)
(*   - Slot::poll (src/vhdl/hir/pkg.rs), the one-shot lazy cell.           *)
(* User-supplied query functions and from_ast implementations are the      *)
(* environment: they may call back into the database / poll slots, return  *)
(* any value, or (query functions) panic; a panic unwinds through the      *)
(* generated method, which has no scoped release, and may be caught by any *)
(* caller.                                                                 *)
(***************************************************************************)
EXTENDS Integers, Sequences, FiniteSets, TLC

\* ---- bounds -------------------------------------------------------------
NumArgs == 2
NumValues == 2
MaxCalls == 3
NumSlots == 2
MaxPolls == 5
MaxDecls == 2
MaxPkgPolls == 3
MaxMarks == 3
MaxDerives == 2

Queries == {"A", "B"}
Args == 1..NumArgs
Values == 1..NumValues
Slots == 1..NumSlots

VARIABLES
  cache,      \* cached_<name>: per query, HashMap from key to result
  stack,      \* QueryStorage.stack: Vec<QueryTag>
  inflight,   \* QueryStorage.inflight: HashSet<QueryTag>
  frames,     \* tags of the query methods whose user function is running
  panicking,  \* a panic is unwinding into the innermost running caller
  runs,       \* history: executions of the user function per tag
  rets,       \* history: values returned by completed calls per tag
  ncalls,     \* history: number of query calls made
  ev,         \* history: tag and path of the query call made by the last step
  clean,      \* history: the current outermost call met no repeated tag and
              \*          no query whose function is known not to return
  bad,        \* history: tags whose call graph holds a failure or a cycle
  fret,       \* history: values returned by the user function per tag
  cycled,     \* history: handle_cycle has been invoked
  slotState,  \* Slot.0: the SlotState of every slot
  arena,      \* nodes allocated through arena.alloc, in allocation order
  pollFrames, \* slots whose from_ast is running, innermost last
  constructs, \* history: executions of from_ast per slot
  outcomes,   \* history: outcomes returned by polls per slot
  npolls,     \* history: number of poll calls made
  pev,        \* history: slot and result of the latest immediate poll return
  viaSpan,    \* slots whose constructing poll was made by Slot::span
  spanlog,    \* history: poll result and span returned by each Slot::span
  conflict,   \* history: a RefCell borrow was refused (BorrowError panic)
  slotInput,  \* the syntax node held by each slot (the Fresh payload)
  QUERIES,    \* thread-local QUERIES: the query fns marked so far
  dbs,        \* the outputs of derive_query_db, in expansion order
  marked      \* history: every fn passed to mark_query, in order

queryVars == <<cache, stack, inflight, frames, panicking, runs, rets,
               ncalls, ev, clean, bad, fret, cycled>>
slotVars == <<slotState, arena, pollFrames, constructs, outcomes, npolls, pev,
              viaSpan, spanlog, slotInput>>
vars == <<cache, stack, inflight, frames, panicking, runs, rets,
          ncalls, ev, clean, bad, fret, cycled, slotState, arena, pollFrames, constructs,
          outcomes, npolls, pev, viaSpan, spanlog, conflict, slotInput,
          QUERIES, dbs, marked>>
regVars == <<QUERIES, dbs, marked>>

Range(s) == {s[i] : i \in 1..Len(s)}
Count(s, x) == Cardinality({i \in 1..Len(s) : s[i] = x})
Pop(s) == IF Len(s) = 0 THEN s ELSE SubSeq(s, 1, Len(s) - 1)

\* ---- RefCell borrows ----------------------------------------------------
\* The cells: one per query cache, the stack, the in-flight set, one per slot.
CacheCell(q) == <<"cache", q>>
StackCell == <<"stack">>
InflightCell == <<"inflight">>
SlotCell(s) == <<"slot", s>>

HeldInUserCacheRef(query_tag) ==
  {[cell |-> CacheCell(query_tag[1]), mut |-> FALSE]}
\* Borrows of the query method that are still alive while the user function
\* runs: the Ref of the cache lookup ends with the `if let` statement, the
\* RefMuts of push and insert end with their statement and condition.
HeldInUser(query_tag) == {}

HeldInFromAstSlotRef(s) == {[cell |-> SlotCell(s), mut |-> FALSE]}
\* Borrows of poll that are still alive while from_ast runs: the Ref of the
\* `match *self.0.borrow()` ends with the match, replace() keeps none.
HeldInFromAst(s) == {}

HeldCells ==
  UNION {HeldInUser(frames[i]) : i \in 1..Len(frames)}
    \cup UNION {HeldInFromAst(pollFrames[i]) : i \in 1..Len(pollFrames)}

\* RefCell::borrow succeeds unless the cell is mutably borrowed;
\* RefCell::borrow_mut (and replace) succeeds only on an unborrowed cell.
CanBorrow(cell) == \A h \in HeldCells : h.cell = cell => ~h.mut
CanBorrowMut(cell) == \A h \in HeldCells : h.cell # cell

\* ---- query database -----------------------------------------------------
QueryTag(q, query_key) == <<q, query_key>>
Tags == {QueryTag(q, a) : q \in Queries, a \in Args}

CacheInsertDropped(c, q, query_key, result) == c
CacheInsertClobber(c, q, query_key, result) ==
  [c EXCEPT ![q] = [k \in {query_key} |-> result]]
CacheInsertEveryQuery(c, q, query_key, result) ==
  [p \in DOMAIN c |-> [k \in DOMAIN c[p] \cup {query_key} |->
                         IF k = query_key THEN result ELSE c[p][k]]]
\* query_storage.cached_<name>.borrow_mut().insert(query_key, result.clone())
CacheInsert(c, q, query_key, result) ==
  [c EXCEPT ![q] = [k \in DOMAIN c[q] \cup {query_key} |->
                      IF k = query_key THEN result ELSE c[q][k]]]

InsertAlwaysNew(s, query_tag) == FALSE
\* !query_storage.inflight.borrow_mut().insert(query_tag.clone())
AlreadyInFlight(s, query_tag) == query_tag \in s

NoCall == [tag |-> <<>>, kind |-> "none"]

\* handle_cycle(&self) -> !  { panic!("query cycle detected") }
handle_cycle ==
  /\ panicking' = TRUE
  /\ cycled' = TRUE
  /\ UNCHANGED <<cache, frames, runs, rets, fret>>

ServeFromCachePushing(q, query_key) ==
  /\ stack' = Append(stack, QueryTag(q, query_key))
  /\ rets' = [rets EXCEPT ![QueryTag(q, query_key)] = @ \cup {cache[q][query_key]}]
  /\ ev' = [tag |-> QueryTag(q, query_key), kind |-> "hit"]
  /\ UNCHANGED <<cache, inflight, frames, panicking, runs, bad, fret, cycled>>
\* the fast path: return result.clone()
ServeFromCache(q, query_key) ==
  /\ rets' = [rets EXCEPT ![QueryTag(q, query_key)] = @ \cup {cache[q][query_key]}]
  /\ ev' = [tag |-> QueryTag(q, query_key), kind |-> "hit"]
  /\ UNCHANGED <<cache, stack, inflight, frames, panicking, runs, bad,
                 fret, cycled>>

\* The borrows the method takes before the user function: the cache lookup,
\* and on a miss the push on the stack and the insert in the in-flight set.
QueryCallBorrowsOk(q, query_key) ==
  /\ CanBorrow(CacheCell(q))
  /\ query_key \notin DOMAIN cache[q] =>
        (CanBorrowMut(StackCell) /\ CanBorrowMut(InflightCell))

\* The borrows the method takes after the user function: the cache insert,
\* the removal from the in-flight set and the pop.
QueryReturnBorrowsOk(q) ==
  /\ CanBorrowMut(CacheCell(q))
  /\ CanBorrowMut(InflightCell)
  /\ CanBorrowMut(StackCell)

\* A refused borrow panics (already borrowed); the panic unwinds like any
\* other.
BorrowPanic ==
  /\ conflict' = TRUE
  /\ panicking' = TRUE
  /\ clean' = FALSE
  /\ ev' = NoCall
  /\ UNCHANGED <<cache, stack, inflight, runs, rets, bad, fret, cycled>>

\* The generated query method from its entry up to the point where it either
\* returns the cached result, diverges in handle_cycle, or has entered the
\* user-supplied function.
QueryCall(q, query_key) ==
  LET query_tag == QueryTag(q, query_key) IN
  /\ ~panicking
  /\ ncalls < MaxCalls
  /\ ncalls' = ncalls + 1
  /\ IF ~QueryCallBorrowsOk(q, query_key)
       THEN /\ BorrowPanic
            /\ UNCHANGED frames
       ELSE /\ conflict' = conflict
            /\ clean' = /\ frames # <<>> => clean
                        /\ query_tag \notin Range(frames) \cup bad
            /\ IF query_key \in DOMAIN cache[q]
                 THEN ServeFromCache(q, query_key)
                 ELSE /\ stack' = Append(stack, query_tag)
                      /\ inflight' = inflight \cup {query_tag}
                      /\ IF AlreadyInFlight(inflight, query_tag)
                           THEN /\ handle_cycle
                                /\ ev' = [tag |-> query_tag, kind |-> "cycle"]
                                /\ bad' = bad \cup Range(frames)
                           ELSE /\ frames' = Append(frames, query_tag)
                                /\ runs' = [runs EXCEPT ![query_tag] = @ + 1]
                                /\ ev' = [tag |-> query_tag, kind |-> "exec"]
                                /\ UNCHANGED <<cache, panicking, rets, bad,
                                               fret, cycled>>
  /\ UNCHANGED <<slotVars, regVars>>

\* The user function of the innermost running query returns `result`; the
\* method stores it, removes its tag from the in-flight set, pops the stack
\* and returns.
QueryReturn(result) ==
  /\ ~panicking
  /\ frames # <<>>
  /\ LET query_tag == frames[Len(frames)] IN
     IF ~QueryReturnBorrowsOk(query_tag[1])
       THEN /\ BorrowPanic
            /\ frames' = Pop(frames)
            /\ UNCHANGED ncalls
       ELSE
       /\ cache' = CacheInsert(cache, query_tag[1], query_tag[2], result)
       /\ inflight' = inflight \ {query_tag}
       /\ stack' = Pop(stack)
       /\ frames' = Pop(frames)
       /\ rets' = [rets EXCEPT ![query_tag] = @ \cup {result}]
       /\ fret' = [fret EXCEPT ![query_tag] = @ \cup {result}]
       /\ ev' = NoCall
       /\ UNCHANGED <<panicking, runs, ncalls, clean, bad, cycled, conflict>>
  /\ UNCHANGED <<slotVars, regVars>>

\* The user function of the innermost running query panics; the unwinding
\* leaves the method without running the statements after the call.
UserFail ==
  /\ ~panicking
  /\ frames # <<>>
  /\ frames' = Pop(frames)
  /\ panicking' = TRUE
  /\ clean' = FALSE
  /\ bad' = bad \cup Range(frames)
  /\ ev' = NoCall
  /\ UNCHANGED <<cache, stack, inflight, runs, rets, ncalls, fret, cycled>>
  /\ UNCHANGED <<slotVars, regVars, conflict>>

\* The panic is not caught by the innermost running user function: it leaves
\* that function and the method that called it.
Propagate ==
  /\ panicking
  /\ frames # <<>>
  /\ frames' = Pop(frames)
  /\ ev' = NoCall
  /\ UNCHANGED <<cache, stack, inflight, panicking, runs, rets, ncalls,
                 clean, bad, fret, cycled>>
  /\ UNCHANGED <<slotVars, regVars, conflict>>

\* The panic is caught by the innermost running caller (a user function, or
\* the code driving the database), which carries on.
Recover ==
  /\ panicking
  /\ panicking' = FALSE
  /\ ev' = NoCall
  /\ UNCHANGED <<cache, stack, inflight, frames, runs, rets, ncalls,
                 clean, bad, fret, cycled>>
  /\ UNCHANGED <<slotVars, regVars, conflict>>

\* ---- slots --------------------------------------------------------------
\* SlotState::Fresh(scope, ast, arena) | ReadyOk(&T) | ReadyErr
Fresh == [st |-> "Fresh"]
ReadyErr == [st |-> "ReadyErr"]
ReadyOk(x) == [st |-> "ReadyOk", ref |-> x]

Ok(x) == [tag |-> "Ok", ref |-> x]
Err == [tag |-> "Err"]

\* common::source::INVALID_SPAN, and the span of the syntax node of a slot
INVALID_SPAN == [valid |-> FALSE]
AstSpan(s) == [valid |-> TRUE, of |-> s]
\* A built node: its `span` field is ast.span
Node(s) == [slot |-> s, span |-> AstSpan(s)]

TentativeKeepsFresh == Fresh
\* self.0.replace(SlotState::ReadyErr) before construction starts
Tentative == ReadyErr

FinalStateRetry(node) == IF node.tag = "Ok" THEN ReadyOk(node.ref) ELSE Fresh
FinalStateForgets(node) == ReadyErr
\* match node { Ok(x) => SlotState::ReadyOk(x), Err(()) => SlotState::ReadyErr }
FinalState(node) == IF node.tag = "Ok" THEN ReadyOk(node.ref) ELSE ReadyErr

ArenasAllocFront(a, x) == <<x>> \o a
\* Arenas2::alloc: the typed arena is append-only; the value is placed after
\* all earlier ones and its position is the reference handed out
ArenasAlloc(a, x) == Append(a, x)

\* Context::alloc: self.arenas.alloc(value)
Alloc(a, x) == ArenasAlloc(a, x)

Record(s, res) ==
  outcomes' = [outcomes EXCEPT ![s] =
                 @ \cup {[res |-> res, nested |-> s \in Range(pollFrames)]}]

\* The borrows of poll before from_ast: the Ref of the match, and on Fresh
\* the replace.
PollBorrowsOk(s) ==
  /\ CanBorrow(SlotCell(s))
  /\ slotState[s].st = "Fresh" => CanBorrowMut(SlotCell(s))

\* Slot::poll from its entry up to the point where it either returns the
\* stored outcome or has entered T::from_ast.
poll_enter(s) ==
  /\ ~conflict
  /\ npolls < MaxPolls
  /\ npolls' = npolls + 1
  /\ IF ~PollBorrowsOk(s)
       THEN /\ conflict' = TRUE
            /\ UNCHANGED <<slotState, arena, pollFrames, constructs, outcomes,
                           pev>>
       ELSE /\ conflict' = conflict
            /\ IF slotState[s].st = "ReadyOk"
                 THEN /\ Record(s, Ok(slotState[s].ref))
                      /\ pev' = [slot |-> s, res |-> Ok(slotState[s].ref)]
                      /\ UNCHANGED <<slotState, arena, pollFrames, constructs>>
                 ELSE IF slotState[s].st = "ReadyErr"
                 THEN /\ Record(s, Err)
                      /\ pev' = [slot |-> s, res |-> Err]
                      /\ UNCHANGED <<slotState, arena, pollFrames, constructs>>
                 ELSE /\ slotState' = [slotState EXCEPT ![s] = Tentative]
                      /\ pollFrames' = Append(pollFrames, s)
                      /\ constructs' = [constructs EXCEPT ![s] = @ + 1]
                      /\ pev' = [slot |-> s, res |-> [tag |-> "started"]]
                      /\ UNCHANGED <<arena, outcomes>>

\* A call of Slot::poll.
poll(s) ==
  /\ poll_enter(s)
  /\ UNCHANGED <<viaSpan, spanlog>>
  /\ UNCHANGED <<queryVars, regVars, slotInput>>

SpanOfAlwaysInvalid(a, res) == INVALID_SPAN
\* .map(Node::span).unwrap_or(INVALID_SPAN) on the result of the poll
SpanOf(a, res) == IF res.tag = "Ok" THEN a[res.ref].span ELSE INVALID_SPAN

\* Slot::span: self.poll().map(Node::span).unwrap_or(INVALID_SPAN). When the
\* poll starts the construction, span returns once from_ast has returned.
span(s) ==
  /\ poll_enter(s)
  /\ IF conflict'
       THEN UNCHANGED <<viaSpan, spanlog>>
       ELSE IF slotState[s].st = "Fresh"
       THEN /\ viaSpan' = viaSpan \cup {s}
            /\ UNCHANGED spanlog
       ELSE /\ spanlog' = spanlog \cup
                 {[slot |-> s, res |-> pev'.res, span |-> SpanOf(arena, pev'.res)]}
            /\ UNCHANGED viaSpan
  /\ UNCHANGED <<queryVars, regVars, slotInput>>

from_ast_returns_allocating(ok) ==
  /\ ~conflict
  /\ pollFrames # <<>>
  /\ LET s == pollFrames[Len(pollFrames)]
         a == Alloc(arena, Node(s))
         node == IF ok THEN Ok(Len(a)) ELSE Err
     IN IF ~CanBorrowMut(SlotCell(s))
          THEN /\ conflict' = TRUE
               /\ UNCHANGED <<slotState, arena, pollFrames, outcomes, spanlog>>
          ELSE /\ conflict' = conflict
               /\ arena' = a
               /\ slotState' = [slotState EXCEPT ![s] = FinalState(node)]
               /\ pollFrames' = Pop(pollFrames)
               /\ outcomes' = [outcomes EXCEPT ![s] = @ \cup
                     {[res |-> node, nested |-> s \in Range(Pop(pollFrames))]}]
               /\ spanlog' = IF s \in viaSpan
                               THEN spanlog \cup {[slot |-> s, res |-> node,
                                                   span |-> SpanOf(a, node)]}
                               ELSE spanlog
  /\ UNCHANGED <<constructs, npolls, pev, viaSpan>>
  /\ UNCHANGED <<queryVars, regVars, slotInput>>

\* T::from_ast of the innermost slot under construction returns; poll
\* allocates the node on success, stores the final state and returns.
from_ast_returns(ok) ==
  /\ ~conflict
  /\ pollFrames # <<>>
  /\ LET s == pollFrames[Len(pollFrames)]
         a == IF ok THEN Alloc(arena, Node(s)) ELSE arena
         node == IF ok THEN Ok(Len(a)) ELSE Err
     IN IF ~CanBorrowMut(SlotCell(s))
          THEN /\ conflict' = TRUE
               /\ UNCHANGED <<slotState, arena, pollFrames, outcomes, spanlog>>
          ELSE /\ conflict' = conflict
               /\ arena' = a
               /\ slotState' = [slotState EXCEPT ![s] = FinalState(node)]
               /\ pollFrames' = Pop(pollFrames)
               /\ outcomes' = [outcomes EXCEPT ![s] = @ \cup
                     {[res |-> node, nested |-> s \in Range(Pop(pollFrames))]}]
               /\ spanlog' = IF s \in viaSpan
                               THEN spanlog \cup {[slot |-> s, res |-> node,
                                                   span |-> SpanOf(a, node)]}
                               ELSE spanlog
  /\ UNCHANGED <<constructs, npolls, pev, viaSpan>>
  /\ UNCHANGED <<queryVars, regVars, slotInput>>

\* ---- packages -----------------------------------------------------------
\* ast::DeclItem: a nested package, a type declaration, or any other item;
\* `id` is the position of the item in its declaration list.
DeclKinds == {"PkgDecl", "TypeDecl", "Other"}
Item(kind, i, decls) ==
  IF kind = "PkgDecl" THEN [kind |-> kind, id |-> i, decls |-> decls]
                      ELSE [kind |-> kind, id |-> i]
\* Declaration lists of packages that hold no further package
LeafLists ==
  UNION {{[i \in 1..n |-> Item(k[i], i, <<>>)] : k \in [1..n -> DeclKinds \ {"PkgDecl"}]}
           : n \in 0..MaxDecls}
LeafItems(i) ==
  {Item(k, i, <<>>) : k \in DeclKinds \ {"PkgDecl"}}
    \cup {Item("PkgDecl", i, l) : l \in LeafLists}
\* Declaration lists of the outermost package
RootLists ==
  UNION {{l \in [1..n -> UNION {LeafItems(i) : i \in 1..n}] :
            \A i \in 1..n : l[i].id = i} : n \in 0..MaxDecls}
RootAsts == {Item("PkgDecl", 1, l) : l \in RootLists}

RECURSIVE ChildDeclsPkgOnly(_)
ChildDeclsPkgOnly(decls) ==
  IF decls = <<>> THEN <<>>
  ELSE (IF Head(decls).kind = "PkgDecl" THEN <<Head(decls)>> ELSE <<>>)
         \o ChildDeclsPkgOnly(Tail(decls))

\* The flat_map of Package2::from_ast: one entry per PkgDecl and TypeDecl
\* item, in source order; every other item yields None.
RECURSIVE ChildDecls(_)
ChildDecls(decls) ==
  IF decls = <<>> THEN <<>>
  ELSE (IF Head(decls).kind = "PkgDecl" THEN <<Head(decls)>>
        ELSE IF Head(decls).kind = "TypeDecl" THEN <<Head(decls)>>
        ELSE <<>>)
         \o ChildDecls(Tail(decls))

\* Package2::alloc_slot / TypeDecl2::alloc_slot: Ok(Slot::new(scope, ast, arena))
alloc_slot(ast) == [state |-> Fresh, input |-> ast]

\* Package2::from_ast of the innermost slot under construction returns: it
\* has allocated one slot per child declaration and collected them as decls;
\* poll allocates the package, stores ReadyOk and returns.
Package2_from_ast ==
  /\ pollFrames # <<>>
  /\ slotInput[pollFrames[Len(pollFrames)]].kind = "PkgDecl"
  /\ LET s == pollFrames[Len(pollFrames)]
         children == ChildDecls(slotInput[s].decls)
         new == [i \in 1..Len(children) |-> alloc_slot(children[i])]
         n == Len(slotState)
         decls == [i \in 1..Len(children) |-> n + i]
         a == Alloc(arena, [slot |-> s, span |-> AstSpan(s), decls |-> decls])
         node == Ok(Len(a))
     IN /\ arena' = a
        /\ slotState' = [slotState \o [i \in 1..Len(new) |-> new[i].state]
                           EXCEPT ![s] = FinalState(node)]
        /\ slotInput' = slotInput \o [i \in 1..Len(new) |-> new[i].input]
        /\ constructs' = constructs \o [i \in 1..Len(new) |-> 0]
        /\ outcomes' = [outcomes \o [i \in 1..Len(new) |-> {}] EXCEPT ![s] =
              @ \cup {[res |-> node, nested |-> FALSE]}]
        /\ pollFrames' = Pop(pollFrames)
  /\ UNCHANGED <<npolls, pev, viaSpan, spanlog, conflict>>
  /\ UNCHANGED <<queryVars, regVars>>

\* TypeDecl2::from_ast of the innermost slot under construction returns Ok;
\* poll allocates the node, stores ReadyOk and returns.
TypeDecl2_from_ast ==
  /\ pollFrames # <<>>
  /\ slotInput[pollFrames[Len(pollFrames)]].kind = "TypeDecl"
  /\ LET s == pollFrames[Len(pollFrames)]
         a == Alloc(arena, Node(s))
         node == Ok(Len(a))
     IN /\ arena' = a
        /\ slotState' = [slotState EXCEPT ![s] = FinalState(node)]
        /\ outcomes' = [outcomes EXCEPT ![s] =
              @ \cup {[res |-> node, nested |-> FALSE]}]
        /\ pollFrames' = Pop(pollFrames)
  /\ UNCHANGED <<constructs, npolls, pev, viaSpan, spanlog, conflict, slotInput>>
  /\ UNCHANGED <<queryVars, regVars>>

\* ---- registration -------------------------------------------------------
\* Identifiers, spelled out so that the derived names can be computed
Names == {<<"a">>, <<"a", "b">>, <<"a", "_", "b">>}
\* Items the attribute can be put on: a function, with or without a return
\* type, or an item that does not parse as a function.
FnItems == [kind : {"Fn"}, name : Names, ret : BOOLEAN]
NotFn == [kind |-> "NotFn"]
MarkInputs == FnItems \cup {NotFn}

Upper(c) == CASE c = "a" -> "A" [] c = "b" -> "B" [] OTHER -> c
RECURSIVE CamelWords(_, _)
CamelWords(name, first) ==
  IF name = <<>> THEN <<>>
  ELSE IF Head(name) = "_" THEN CamelWords(Tail(name), TRUE)
  ELSE <<IF first THEN Upper(Head(name)) ELSE Head(name)>>
         \o CamelWords(Tail(name), FALSE)
\* name.to_string().to_camel_case(): the words between underscores, each
\* with its first letter in upper case, joined without separator
to_camel_case(name) == CamelWords(name, TRUE)
\* format_ident!("cached_{}", name)
cache_name(name) == <<"cached_">> \o name

FlushKeeps(queries) == queries
\* std::mem::replace(&mut *c.borrow_mut(), Default::default()) leaves the
\* empty list behind
Flush(queries) == <<>>

\* mark_query: an input that is not a function ends the expansion with a
\* compile error; a function is pushed to QUERIES. `marked` logs every call.
mark_query(input) ==
  /\ Len(marked) < MaxMarks
  /\ marked' = Append(marked, input)
  /\ IF input.kind = "Fn"
       THEN QUERIES' = Append(QUERIES, input)
       ELSE UNCHANGED QUERIES
  /\ UNCHANGED dbs
  /\ UNCHANGED <<queryVars, slotVars, conflict>>

\* derive_query_db: takes the accumulated queries, then renders one trait
\* method, one cache field and one tag variant per query; a query without
\* return type makes it panic before anything is emitted. `dbs` logs every
\* call with the queries it took and what it emitted.
derive_query_db ==
  /\ Len(dbs) < MaxDerives
  /\ LET queries == QUERIES
         n == Len(queries)
     IN /\ QUERIES' = Flush(QUERIES)
        /\ IF \E k \in 1..n : ~queries[k].ret
             THEN dbs' = Append(dbs, [ok |-> FALSE, queries |-> queries,
                                      funcs |-> <<>>, caches |-> <<>>,
                                      query_tags |-> <<>>])
             ELSE dbs' = Append(dbs,
                    [ok |-> TRUE, queries |-> queries,
                     funcs |-> [k \in 1..n |-> queries[k].name],
                     caches |-> [k \in 1..n |-> cache_name(queries[k].name)],
                     query_tags |-> [k \in 1..n |-> to_camel_case(queries[k].name)]])
  /\ UNCHANGED marked
  /\ UNCHANGED <<queryVars, slotVars, conflict>>

QueryInit ==
  /\ cache = [q \in Queries |-> <<>>]
  /\ stack = <<>>
  /\ inflight = {}
  /\ frames = <<>>
  /\ panicking = FALSE
  /\ runs = [t \in Tags |-> 0]
  /\ rets = [t \in Tags |-> {}]
  /\ ncalls = 0
  /\ ev = NoCall
  /\ clean = TRUE
  /\ bad = {}
  /\ fret = [t \in Tags |-> {}]
  /\ cycled = FALSE

SlotInit ==
  /\ slotState = [s \in Slots |-> Fresh]
  /\ arena = <<>>
  /\ pollFrames = <<>>
  /\ constructs = [s \in Slots |-> 0]
  /\ outcomes = [s \in Slots |-> {}]
  /\ npolls = 0
  /\ pev = [slot |-> 1, res |-> [tag |-> "none"]]
  /\ viaSpan = {}
  /\ spanlog = {}
  /\ slotInput = [s \in Slots |-> [kind |-> "Any"]]

RegInit ==
  /\ QUERIES = <<>>
  /\ dbs = <<>>
  /\ marked = <<>>

Init == QueryInit /\ SlotInit /\ RegInit /\ conflict = FALSE

Next ==
  \/ \E q \in Queries, a \in Args : QueryCall(q, a)
  \/ \E v \in Values : QueryReturn(v)
  \/ UserFail
  \/ Propagate
  \/ Recover

Spec == Init /\ [][Next]_vars

SlotNext ==
  \/ \E s \in Slots : poll(s)
  \/ \E s \in Slots : span(s)
  \/ \E ok \in BOOLEAN : from_ast_returns(ok)

SlotSpec == Init /\ [][SlotNext]_vars

\* Query functions and from_ast implementations run on one thread and may
\* call into both cores; MaxNested bounds the calls of both kinds together.
MaxNested == MaxCalls

BorrowNext ==
  \/ /\ ncalls + npolls < MaxNested
     /\ \/ \E q \in Queries, a \in Args : QueryCall(q, a)
        \/ \E s \in Slots : poll(s)
        \/ \E s \in Slots : span(s)
  \/ \E v \in Values : QueryReturn(v)
  \/ UserFail
  \/ Propagate
  \/ Recover
  \/ \E ok \in BOOLEAN : from_ast_returns(ok)

BorrowSpec == Init /\ [][BorrowNext]_vars

\* One outermost package slot over any bounded syntax tree; its slot and the
\* slots it creates are polled in any order.
PkgInit ==
  /\ QueryInit /\ RegInit /\ conflict = FALSE
  /\ slotInput \in {<<root>> : root \in RootAsts}
  /\ slotState = <<Fresh>>
  /\ arena = <<>>
  /\ pollFrames = <<>>
  /\ constructs = <<0>>
  /\ outcomes = <<{}>>
  /\ npolls = 0
  /\ pev = [slot |-> 1, res |-> [tag |-> "none"]]
  /\ viaSpan = {}
  /\ spanlog = {}

PkgNext ==
  \/ \E s \in DOMAIN slotState :
        \* neither from_ast polls a slot: polls come from outside a construction
        npolls < MaxPkgPolls /\ pollFrames = <<>> /\ poll(s)
  \/ Package2_from_ast
  \/ TypeDecl2_from_ast

PkgSpec == PkgInit /\ [][PkgNext]_vars

RegNext ==
  \/ \E input \in MarkInputs : mark_query(input)
  \/ derive_query_db

RegSpec == Init /\ [][RegNext]_vars
\* ---- properties ---------------------------------------------------------
Cached(t) == t[2] \in DOMAIN cache[t[1]]
Top(s) == s[Len(s)]

\* C1: the user function of a query runs at most once per argument tuple,
\* and every call made after a call with the same tag has returned is served
\* from the cache, without running the function, with that same value.
C1_Memoization ==
  [][ /\ \A t \in Tags : runs'[t] <= 1 /\ Cardinality(rets'[t]) <= 1
      /\ (ncalls' = ncalls + 1 /\ rets[ev'.tag] # {})
           => (ev'.kind = "hit" /\ runs' = runs /\ rets' = rets) ]_vars

C1_Witness ==
  /\ ev.kind = "hit"
  /\ runs[ev.tag] = 1
  /\ Cardinality(rets[ev.tag]) = 1
  /\ ncalls >= 3

\* C2: a call whose tag belongs to a query that is still executing invokes
\* the cycle handler instead of the user function, does not return to its
\* caller, and leaves the tag at least twice on the call stack.
C2_CycleDetected ==
  [][ (ncalls' = ncalls + 1 /\ ev'.tag \in Range(frames))
        => /\ ev'.kind = "cycle"
           /\ runs' = runs
           /\ rets' = rets
           /\ frames' = frames
           /\ panicking'
           /\ Count(stack', ev'.tag) >= 2 ]_vars

C2_Witness ==
  /\ ev.kind = "cycle"
  /\ panicking
  /\ Len(frames) >= 2
  /\ frames[1] = ev.tag
  /\ Top(frames) # ev.tag
  /\ Count(stack, ev.tag) >= 2

\* C3: the cycle handler is invoked by a call only when the call's tag is in
\* the in-flight set, that is, only when a query with that tag is executing
\* further up the current call chain.
C3_ExactDetection ==
  [][ ev'.kind = "cycle"
        => (ev'.tag \in inflight /\ ev'.tag \in Range(frames)) ]_vars

\* C4: whenever a query call has exited, by return or by unwinding, the tag
\* it pushed is gone: the call stack lists exactly the running queries and
\* the in-flight set holds exactly their tags.
C4_ScopedRelease ==
  /\ stack = frames
  /\ inflight = Range(frames)

\* C5: a cache entry, once present, stays with the same value in every
\* later state, and a step that changes the caches adds only the entry of
\* the query that is returning.
C5_CacheMonotone ==
  [][ /\ \A q \in Queries : \A k \in DOMAIN cache[q] :
            k \in DOMAIN cache'[q] /\ cache'[q][k] = cache[q][k]
      /\ cache' # cache =>
           /\ frames # <<>>
           /\ \A q \in Queries : \A k \in DOMAIN cache'[q] \ DOMAIN cache[q] :
                 QueryTag(q, k) = Top(frames) ]_vars

C5_Witness ==
  \E q \in Queries : \E k1, k2 \in DOMAIN cache[q] :
     k1 # k2 /\ cache[q][k1] # cache[q][k2]

\* C6: a call whose key is already cached returns the stored value and
\* changes neither the call stack, the in-flight set nor any cache, and runs
\* neither the user function nor the cycle handler.
C6_FastPathFrame ==
  [][ (ncalls' = ncalls + 1 /\ Cached(ev'.tag))
        => /\ ev'.kind = "hit"
           /\ UNCHANGED <<cache, stack, inflight, frames, panicking, runs>>
           /\ rets'[ev'.tag] = rets[ev'.tag] \cup
                                 {cache[ev'.tag[1]][ev'.tag[2]]} ]_vars

C6_Witness ==
  /\ ev.kind = "hit"
  /\ frames # <<>>
  /\ stack = frames
  /\ ~panicking

\* C7: an outermost call that meets no repeated tag on any call chain and
\* whose user functions all return never invokes the cycle handler, never
\* unwinds, and leaves the call stack and the in-flight set empty.
C7_AcyclicCompletes ==
  [][ clean' => /\ ev'.kind # "cycle"
                /\ ~panicking'
                /\ frames' = <<>> => (stack' = <<>> /\ inflight' = {}) ]_vars

\* C8: from_ast runs at most once per slot.
C8_ConstructOnce == \A s \in Slots : constructs[s] <= 1

C8_Witness ==
  /\ pev.res = Err
  /\ pev.slot \notin Range(pollFrames)
  /\ constructs[pev.slot] = 1
  /\ npolls >= 3

Results(s, nested) == {o.res : o \in {x \in outcomes[s] : x.nested = nested}}

\* C9 (as stated): all polls of a slot return the same outcome.
C9_SameOutcome ==
  \A s \in Slots : Cardinality({o.res : o \in outcomes[s]}) <= 1

\* C9 (amended): all polls of a slot made from outside its own construction
\* return the same outcome; polls made from inside it return the failure.
C9_SameOutcomeOutside ==
  \A s \in Slots :
     /\ Cardinality(Results(s, FALSE)) <= 1
     /\ Results(s, TRUE) \subseteq {Err}

C9_Witness ==
  \E s \in Slots :
     /\ Results(s, TRUE) = {Err}
     /\ pev.slot = s
     /\ pev.res.tag = "Ok"
     /\ Results(s, FALSE) = {pev.res}

\* C10: a slot under construction is ReadyErr, and a poll of it returns the
\* failure at once: no second construction, no change of any slot.
C10_ReentrantGuard ==
  [][ /\ \A s \in Range(pollFrames') : slotState'[s] = ReadyErr
      /\ (npolls' = npolls + 1 /\ pev'.slot \in Range(pollFrames))
           => /\ pev'.res = Err
              /\ UNCHANGED <<slotState, arena, pollFrames, constructs>> ]_vars

C10_Witness ==
  /\ pev.res = Err
  /\ pev.slot \in Range(pollFrames)
  /\ Len(pollFrames) >= 2
  /\ Top(pollFrames) # pev.slot
\* C11: a slot's state changes only Fresh -> ReadyErr when a poll starts
\* its construction and ReadyErr -> ReadyOk(r) when that construction
\* returns; it never returns to Fresh and never changes once its
\* construction has returned.
C11_SlotTransitions ==
  [][ \A s \in Slots :
        /\ slotState'[s] = Fresh => slotState[s] = Fresh
        /\ slotState'[s] # slotState[s] =>
             \/ /\ slotState[s] = Fresh
                /\ slotState'[s] = ReadyErr
                /\ pollFrames' = Append(pollFrames, s)
             \/ /\ slotState[s] = ReadyErr
                /\ slotState'[s].st = "ReadyOk"
                /\ pollFrames # <<>>
                /\ Top(pollFrames) = s
                /\ pollFrames' = Pop(pollFrames)
        /\ (constructs[s] >= 1 /\ s \notin Range(pollFrames))
             => slotState'[s] = slotState[s] ]_vars

C11_Witness ==
  /\ pollFrames = <<>>
  /\ \E s, t \in Slots :
       /\ slotState[s].st = "ReadyOk"
       /\ slotState[t] = ReadyErr
       /\ constructs[s] = 1
       /\ constructs[t] = 1
       /\ pev.slot = s
       /\ pev.res = Ok(slotState[s].ref)

\* C14: an allocation adds one value after the existing ones and leaves
\* every earlier value in place, so the reference held by a ReadyOk slot
\* keeps designating the node built for that slot.
C14_ArenaAppendOnly ==
  [][ /\ Len(arena') \in {Len(arena), Len(arena) + 1}
      /\ \A i \in 1..Len(arena) : arena'[i] = arena[i]
      /\ \A s \in Slots : slotState'[s].st = "ReadyOk" =>
            /\ slotState'[s].ref \in 1..Len(arena')
            /\ arena'[slotState'[s].ref].slot = s ]_vars

C14_Witness ==
  \E s \in Slots :
     /\ slotState[s].st = "ReadyOk"
     /\ slotState[s].ref < Len(arena)
     /\ arena[slotState[s].ref].slot = s

\* C15: a poll that ran the construction allocates exactly one node when
\* from_ast succeeded, stores ReadyOk of that new reference and returns it;
\* when from_ast failed it allocates nothing, stores ReadyErr and returns the
\* failure. A poll of a resolved slot allocates nothing.
C15_PollAllocates ==
  [][ /\ (pollFrames # <<>> /\ pollFrames' = Pop(pollFrames)) =>
           LET s == Top(pollFrames) IN
           \/ /\ arena' = arena
              /\ slotState'[s] = ReadyErr
              /\ [res |-> Err, nested |-> FALSE] \in outcomes'[s]
           \/ /\ Len(arena') = Len(arena) + 1
              /\ SubSeq(arena', 1, Len(arena)) = arena
              /\ arena'[Len(arena')].slot = s
              /\ slotState'[s] = ReadyOk(Len(arena'))
              /\ [res |-> Ok(Len(arena')), nested |-> FALSE] \in outcomes'[s]
      /\ npolls' = npolls + 1 => arena' = arena ]_vars

C15_Witness ==
  /\ Len(arena) = 1
  /\ \E s, t \in Slots :
       /\ slotState[s] = ReadyOk(1)
       /\ slotState[t] = ReadyErr
       /\ constructs[t] = 1
       /\ t \notin Range(pollFrames)
       /\ pev.slot = s
       /\ pev.res = Ok(1)

\* C19: once the function of a query has started for a tag, the tag is in
\* the in-flight set or its key is in the query's cache in every later state.
C19_InFlightOrCached ==
  \A t \in Tags : runs[t] >= 1 => (t \in inflight \/ Cached(t))

C19_Witness ==
  \E t, u \in Tags :
     /\ runs[t] = 1 /\ Cached(t) /\ t \notin inflight
     /\ runs[u] = 1 /\ ~Cached(u) /\ u \in inflight
\* C16: every cache entry is stored under the query and key of the call
\* that computed it and holds the value the user function returned for that
\* tag, and every value returned by a call is that value.
C16_CacheHoldsFunctionValue ==
  /\ \A q \in Queries : \A k \in DOMAIN cache[q] :
        k \in Args /\ fret[QueryTag(q, k)] = {cache[q][k]}
  /\ \A t \in Tags : (fret[t] # {} => Cached(t)) /\ rets[t] \subseteq fret[t]

C16_Witness ==
  /\ ev.kind = "hit"
  /\ \E t, u \in Tags :
       /\ t[1] # u[1]
       /\ Cached(t) /\ Cached(u)
       /\ cache[t[1]][t[2]] # cache[u[1]][u[2]]
       /\ rets[t] = fret[t] /\ rets[u] = fret[u]

NoDup(s) == \A i, j \in 1..Len(s) : s[i] = s[j] => i = j

\* C18: as long as the cycle handler has not been invoked, inside a user
\* function the call stack has no duplicate, lists exactly the running
\* queries in call order, the in-flight set is the set of its tags, and a
\* returning query pops its own tag.
C18_StackDiscipline ==
  [][ ~cycled' =>
        /\ (frames' # <<>> /\ ~panicking') =>
              /\ NoDup(stack')
              /\ inflight' = Range(stack')
              /\ stack' = frames'
        /\ (frames # <<>> /\ ~panicking /\ ~panicking' /\ frames' = Pop(frames)) =>
              /\ stack # <<>>
              /\ Top(stack) = Top(frames)
              /\ stack' = Pop(stack) ]_vars
\* C13: span() returns the span of the node the poll yields, INVALID_SPAN
\* when the poll fails, and on a Fresh slot it starts the construction as
\* poll does.
C13_SpanForwards ==
  [][ /\ \A e \in spanlog' :
            /\ \E n \in BOOLEAN : [res |-> e.res, nested |-> n] \in outcomes'[e.slot]
            /\ IF e.res.tag = "Ok"
                 THEN /\ e.res.ref \in 1..Len(arena')
                      /\ e.span = arena'[e.res.ref].span
                      /\ e.span = AstSpan(e.slot)
                 ELSE e.span = INVALID_SPAN
      /\ viaSpan' # viaSpan =>
            \E s \in Slots :
               /\ viaSpan' = viaSpan \cup {s}
               /\ slotState[s] = Fresh
               /\ slotState'[s] = ReadyErr
               /\ constructs'[s] = constructs[s] + 1
               /\ pollFrames' = Append(pollFrames, s) ]_vars

C13_Witness ==
  \E s \in viaSpan :
     /\ [slot |-> s, res |-> Err, span |-> INVALID_SPAN] \in spanlog
     /\ \E e \in spanlog : e.slot = s /\ e.res.tag = "Ok" /\ e.span = AstSpan(s)

IsChildDecl(d) == d.kind \in {"PkgDecl", "TypeDecl"}

\* C12: when the construction of a package returns, one Fresh slot exists
\* for each nested package and type declaration, in source order and for no
\* other item; the package's decls are exactly these slots, none of them has
\* been polled and no other slot has changed.
C12_ChildSlotsDeferred ==
  [][ (pollFrames # <<>> /\ pollFrames' = Pop(pollFrames)
         /\ slotInput[Top(pollFrames)].kind = "PkgDecl") =>
        LET s == Top(pollFrames)
            want == SelectSeq(slotInput[s].decls, IsChildDecl)
            n == Len(slotState)
        IN /\ Len(slotState') = n + Len(want)
           /\ \A i \in 1..Len(want) :
                 /\ slotState'[n + i] = Fresh
                 /\ slotInput'[n + i] = want[i]
                 /\ constructs'[n + i] = 0
                 /\ outcomes'[n + i] = {}
           /\ arena'[Len(arena')].decls = [i \in 1..Len(want) |-> n + i]
           /\ \A t \in 1..n : t # s => slotState'[t] = slotState[t]
           /\ SubSeq(slotInput', 1, n) = slotInput
           /\ npolls' = npolls ]_vars

C12_Witness ==
  /\ pollFrames = <<>>
  /\ Len(slotState) = 3
  /\ slotState[1].st = "ReadyOk"
  /\ slotState[2].st = "ReadyOk"
  /\ slotState[3] = Fresh
  /\ slotInput[2].kind = "PkgDecl"
  /\ slotInput[3].kind = "TypeDecl"
  /\ Len(slotInput[2].decls) = 2
  /\ slotInput[2].decls[1].kind = "Other"
  /\ arena[slotState[2].ref].decls = <<3>>
RECURSIVE Consumed(_)
\* The queries taken by the derive_query_db calls so far, in order
Consumed(log) ==
  IF log = <<>> THEN <<>> ELSE log[1].queries \o Consumed(Tail(log))

IsFn(input) == input.kind = "Fn"

\* One trait method, one cache field and one tag variant for each query the
\* call took, in the order it took them
OnePerQuery(db) ==
  /\ Len(db.funcs) = Len(db.queries)
  /\ Len(db.caches) = Len(db.queries)
  /\ Len(db.query_tags) = Len(db.queries)
  /\ \A k \in 1..Len(db.queries) :
        /\ db.funcs[k] = db.queries[k].name
        /\ db.caches[k] = cache_name(db.queries[k].name)
        /\ db.query_tags[k] = to_camel_case(db.queries[k].name)

\* C20 as stated: every mark_query call appends one query; the queries
\* taken by the derive_query_db calls followed by the pending list are the
\* registrations, in order; after a derive_query_db call the list is empty
\* up to later registrations; and every derive_query_db call emits one
\* method, one cache field and one tag variant per query it took.
C20_FlushOnce ==
  /\ Consumed(dbs) \o QUERIES = marked
  /\ \A i \in 1..Len(dbs) : OnePerQuery(dbs[i])

\* C20, amended: the same for the mark_query calls on functions and for the
\* derive_query_db calls that return; a call that took a function without
\* return type panics instead and emits nothing for the queries it took.
C20_FlushOnceReturning ==
  /\ Consumed(dbs) \o QUERIES = SelectSeq(marked, IsFn)
  /\ \A i \in 1..Len(dbs) :
        /\ dbs[i].ok => OnePerQuery(dbs[i])
        /\ dbs[i].ok <=> \A k \in 1..Len(dbs[i].queries) : dbs[i].queries[k].ret
        /\ ~dbs[i].ok =>
              dbs[i].funcs = <<>> /\ dbs[i].caches = <<>> /\ dbs[i].query_tags = <<>>

C20_Witness ==
  /\ Len(dbs) = 2
  /\ dbs[1].ok /\ dbs[2].ok
  /\ Len(dbs[1].queries) = 2
  /\ Len(dbs[2].queries) = 1
  /\ dbs[1].query_tags = << <<"A", "B">>, <<"A", "b">> >>
  /\ QUERIES = <<>>
====
